---------------------------- MODULE Spec2Model ----------------------------
(***************************************************************************)
(* A model of run.py, the 8-K feed parser: the line normaliser             *)
(* (parse_html), the Item 1.05 gate of doit, the item segmenter            *)
(* (parse_items) and the body of doit that follows the gate (exhibit       *)
(* extraction, reference resolution, boundary repair, reporting).          *)
(*                                                                         *)
(* Text is modelled at two grains.  The normaliser works on sequences of   *)
(* characters (one-character strings; NonAscii stands for one character    *)
(* outside \x00-\x7F).  Everything else works on lines and fragments,      *)
(* which are sequences of words separated by single spaces.                *)
(*                                                                         *)
(* Four specifications share the variables:                                *)
(*   SpecNorm  parse_html applied twice to an input text                   *)
(*   SpecGate  doit from its entry to the gate's decision (lines 267-291)  *)
(*   SpecSeg   parse_items, one line per step (lines 158-215)              *)
(*   SpecBody  doit from the call of parse_items on (lines 291-355)        *)
(*                                                                         *)
(* SpecBody starts where the gate lets doit through.  SpecGate shows that  *)
(* the gate as written lets no filing through, so SpecBody describes the   *)
(* code of lines 291-355 on the inputs it is written for, not states a     *)
(* full run of the program reaches.                                        *)
(***************************************************************************)
EXTENDS Naturals, Sequences, FiniteSets

VARIABLES
    pc,          \* position in the function the specification models
    raw,         \* parse_html: response_text
    once,        \* parse_html(raw)
    twice,       \* parse_html(parse_html(raw))
    summary,     \* entry.summary, as words
    doity,       \* doit: the gate's flag
    items,       \* the items dict, in insertion order: <<[k, v]>>
    signature,   \* parse_items: signature
    documents,   \* the documents dict, in insertion order: <<[k, v]>>
    sections,    \* parse_items: the located sections, each its lines
    secIdx,      \* parse_items: index of the section being read
    lineIdx,     \* parse_items: index of the next line of that section
    item,        \* parse_items: the current item, or None
    reached_sig, \* parse_items: reached_sig
    fates,       \* history: what parse_items did with each line it read
    blocks,      \* the <DOCUMENT> blocks of the submission
    extracted,   \* history: short titles in the order parse_documents extracted them
    itemIdx,     \* doit: position of the item loop (line 312)
    prev_item,   \* doit: prev_item
    out,         \* stdout, as records
    err          \* stderr, as records

vars == <<pc, raw, once, twice, summary, doity, items, signature, documents,
          sections, secIdx, lineIdx, item, reached_sig, fates, blocks,
          extracted, itemIdx, prev_item, out, err>>

None == "None"

(***************************************************************************)
(* Bounds of the model.                                                    *)
(***************************************************************************)
MaxChunks == 4
MaxWords == 3
MaxLines == 4
MaxSections == 2
MaxExFrags == 2
MaxDocs == 2

(***************************************************************************)
(* Generic helpers.                                                        *)
(***************************************************************************)
Range(s) == {s[i] : i \in 1..Len(s)}

SeqsUpTo(S, n) == UNION {[1..k -> S] : k \in 0..n}

RECURSIVE Flatten(_)
Flatten(ss) == IF ss = <<>> THEN <<>> ELSE Head(ss) \o Flatten(Tail(ss))

\* The first index of x in s (list.index); 0 when absent.
IndexOf(s, x) ==
    IF \E i \in 1..Len(s) : s[i] = x
    THEN CHOOSE i \in 1..Len(s) : s[i] = x /\ \A j \in 1..(i - 1) : s[j] # x
    ELSE 0

\* Every enumeration of a finite set without repetition (iteration of a set).
Enumerations(S) ==
    {f \in [1..Cardinality(S) -> S] : \A i, j \in 1..Cardinality(S) : f[i] = f[j] => i = j}

(***************************************************************************)
(* Characters and parse_html.                                              *)
(***************************************************************************)
NonAscii == "U+00E9"
NL == "\n"

\* "&#160;" (line 62)
Nbsp == <<"&", "#", "1", "6", "0", ";">>

IsSpace(c) == c \in {" ", NL, "\t", "\r"}

RECURSIVE ReplaceNbsp(_)
ReplaceNbsp(s) ==
    IF s = <<>> THEN <<>>
    ELSE IF Len(s) >= Len(Nbsp) /\ SubSeq(s, 1, Len(Nbsp)) = Nbsp
         THEN <<" ">> \o ReplaceNbsp(SubSeq(s, Len(Nbsp) + 1, Len(s)))
         ELSE <<Head(s)>> \o ReplaceNbsp(Tail(s))

RECURSIVE LStrip(_)
LStrip(s) == IF s # <<>> /\ IsSpace(Head(s)) THEN LStrip(Tail(s)) ELSE s

RECURSIVE RStrip(_)
RStrip(s) ==
    IF s # <<>> /\ IsSpace(s[Len(s)]) THEN RStrip(SubSeq(s, 1, Len(s) - 1)) ELSE s

Strip(s) == RStrip(LStrip(s))

clean_non_ascii(text) == Strip(SelectSeq(text, LAMBDA c : c # NonAscii))

\* str.split('\n'): always at least one line.
RECURSIVE SplitLines(_)
SplitLines(s) ==
    LET i == IndexOf(s, NL)
    IN IF i = 0 THEN <<s>>
       ELSE <<SubSeq(s, 1, i - 1)>> \o SplitLines(SubSeq(s, i + 1, Len(s)))

RECURSIVE JoinLines(_)
JoinLines(ls) ==
    IF Len(ls) = 1 THEN ls[1] ELSE ls[1] \o <<NL>> \o JoinLines(Tail(ls))

parse_html(response_text) ==
    LET full_html == clean_non_ascii(ReplaceNbsp(response_text))
        lines == SplitLines(full_html)
    IN JoinLines([i \in 1..Len(lines) |-> Strip(lines[i])])

\* The pieces input texts are built from.
Chunks == {<<"&", "#", "1">>, <<"6", "0", ";">>, <<NonAscii>>, <<" ">>, <<NL>>, <<"a">>}

NormIdle == raw = <<>> /\ once = <<>> /\ twice = <<>>
GateIdle == summary = <<>> /\ doity = FALSE
SegIdle ==
    /\ sections = <<>> /\ secIdx = 0 /\ lineIdx = 0
    /\ item = None /\ reached_sig = FALSE /\ fates = <<>>
BodyIdle == blocks = <<>> /\ extracted = <<>> /\ itemIdx = 0 /\ prev_item = None
DictsIdle == items = <<>> /\ signature = <<>> /\ documents = <<>>
OutIdle == out = <<>> /\ err = <<>>

normRest == <<summary, doity, items, signature, documents, sections, secIdx,
              lineIdx, item, reached_sig, fates, blocks, extracted, itemIdx,
              prev_item, out, err>>

InitNorm ==
    /\ pc = "norm"
    /\ \E cs \in SeqsUpTo(Chunks, MaxChunks) : raw = Flatten(cs)
    /\ once = <<>>
    /\ twice = <<>>
    /\ GateIdle /\ SegIdle /\ BodyIdle /\ DictsIdle /\ OutIdle

Normalize ==
    /\ pc = "norm"
    /\ once' = parse_html(raw)
    /\ pc' = "renorm"
    /\ UNCHANGED <<raw, twice, normRest>>

Renormalize ==
    /\ pc = "renorm"
    /\ twice' = parse_html(once)
    /\ pc' = "norm_done"
    /\ UNCHANGED <<raw, once, normRest>>

NextNorm == Normalize \/ Renormalize

SpecNorm == InitNorm /\ [][NextNorm]_vars

\* C8: parse_html is idempotent: parse_html(parse_html(x)) = parse_html(x) for
\* every input text x.
C8_Idempotent == pc = "norm_done" => twice = once

(***************************************************************************)
(* Ordered dictionaries (dict and defaultdict keep insertion order).       *)
(***************************************************************************)
Keys(d) == [i \in 1..Len(d) |-> d[i].k]

Has(d, k) == \E i \in 1..Len(d) : d[i].k = k

Get(d, k) == d[IndexOf(Keys(d), k)].v

\* d[k] = v: in place for a key the dict holds, at the end for a new one.
Put(d, k, v) ==
    IF Has(d, k)
    THEN [i \in 1..Len(d) |-> IF d[i].k = k THEN [k |-> k, v |-> v] ELSE d[i]]
    ELSE Append(d, [k |-> k, v |-> v])

\* An item's fragments: a list, or (after boundary repair) a set.
ListVal(l) == [isSet |-> FALSE, l |-> l, s |-> {}]
SetVal(s) == [isSet |-> TRUE, l |-> <<>>, s |-> s]

\* len(items[k])
Size(v) == IF v.isSet THEN Cardinality(v.s) ELSE Len(v.l)

\* x in items[k]
Holds(v, x) == IF v.isSet THEN x \in v.s ELSE x \in Range(v.l)

\* The orders in which iterating items[k] can yield its fragments.
Orders(v) == IF v.isSet THEN Enumerations(v.s) ELSE {v.l}

\* defaultdict(list): items[k] creates the key when it is missing.
Touch(d, k) == IF Has(d, k) THEN d ELSE Append(d, [k |-> k, v |-> ListVal(<<>>)])

\* items[k].append(frag)
AppendTo(d, k, frag) == Put(Touch(d, k), k, ListVal(Append(Get(Touch(d, k), k).l, frag)))

(***************************************************************************)
(* Words.                                                                  *)
(***************************************************************************)
Ids == {"1.05", "2.02", "9.01"}
Titles == {"2.1", "2.2"}

\* The words of the vocabulary that match \d+\.\d+ as a whole.
IsNumber(w) == w \in Ids \cup Titles

\* str.lower(), on the words of the vocabulary that have upper-case letters.
LowerWord(w) ==
    CASE w = "Item" -> "item"
      [] w = "ITEM" -> "item"
      [] w = "Items" -> "items"
      [] w = "Other" -> "other"
      [] w = "SIGNATURES" -> "signatures"
      [] w = "Signature(s)" -> "signature(s)"
      [] w = "Exhibit" -> "exhibit"
      [] OTHER -> w

Lower(ws) == [i \in 1..Len(ws) |-> LowerWord(ws[i])]

\* The characters of a word, for the substring test of the gate.
Chars(w) ==
    CASE w = "item" -> <<"i", "t", "e", "m">>
      [] w = "other" -> <<"o", "t", "h", "e", "r">>
      [] w = "1.05" -> <<"1", ".", "0", "5">>
      [] w = "2.02" -> <<"2", ".", "0", "2">>
      [] w = "9.01" -> <<"9", ".", "0", "1">>

RECURSIVE JoinChars(_)
JoinChars(ws) ==
    IF ws = <<>> THEN <<>>
    ELSE IF Len(ws) = 1 THEN Chars(ws[1])
    ELSE Chars(ws[1]) \o <<" ">> \o JoinChars(Tail(ws))

\* needle in hay, on strings.
Contains(hay, needle) ==
    \E i \in 0..(Len(hay) - Len(needle)) : SubSeq(hay, i + 1, i + Len(needle)) = needle

(***************************************************************************)
(* doit up to the gate (lines 267-291).                                    *)
(***************************************************************************)
\* re.findall(r'Item.?.?(\d+\.\d+)', entry.summary, IGNORECASE): the numbers
\* that follow the word Item.
RECURSIVE find_item_nums(_)
find_item_nums(ws) ==
    IF Len(ws) < 2 THEN <<>>
    ELSE IF LowerWord(ws[1]) = "item" /\ IsNumber(ws[2])
         THEN <<ws[2]>> \o find_item_nums(Tail(Tail(ws)))
         ELSE find_item_nums(Tail(ws))

\* for item_num in item_nums: items[item_num] = []
RECURSIVE PreSeed(_, _)
PreSeed(d, nums) ==
    IF nums = <<>> THEN d ELSE PreSeed(Put(d, Head(nums), ListVal(<<>>)), Tail(nums))

\* 'Item 1.05'.lower() in item.lower()
GateMatch(key) == Contains(Chars(LowerWord(key)), JoinChars(Lower(<<"Item", "1.05">>)))

\* lines 283-287
Doity(d) == \E i \in 1..Len(d) : GateMatch(d[i].k)

SummaryWords == {"Item", "ITEM", "Other", "1.05", "9.01"}

gateRest == <<raw, once, twice, signature, documents, sections, secIdx, lineIdx,
              item, reached_sig, fates, blocks, extracted, itemIdx, prev_item,
              out, err>>

InitGate ==
    /\ pc = "find_item_nums"
    /\ summary \in SeqsUpTo(SummaryWords, MaxWords)
    /\ doity = FALSE
    /\ NormIdle /\ SegIdle /\ BodyIdle /\ DictsIdle /\ OutIdle

\* lines 279-281
FindItemNums ==
    /\ pc = "find_item_nums"
    /\ items' = PreSeed(items, find_item_nums(summary))
    /\ pc' = "gate"
    /\ UNCHANGED <<summary, doity, gateRest>>

\* lines 283-291: return, or go on to parse_items
Gate ==
    /\ pc = "gate"
    /\ doity' = Doity(items)
    /\ pc' = IF Doity(items) THEN "parse_items" ELSE "returned"
    /\ UNCHANGED <<summary, items, gateRest>>

NextGate == FindItemNums \/ Gate

SpecGate == InitGate /\ [][NextGate]_vars

\* C10: doit goes on to parse_items exactly when the pre-seed scan yielded the
\* item id 1.05.
C10_GateIffSeeded ==
    pc \in {"parse_items", "returned"} =>
        /\ doity <=> Has(items, "1.05")
        /\ pc = "parse_items" <=> doity

(***************************************************************************)
(* parse_items (lines 158-215), one line per step.                         *)
(*                                                                         *)
(* A line is what text.split('\n') yields at line 178, after               *)
(* get_html_text and fix_items: h is the item number of an "Item D.D"      *)
(* heading at the start of the line (None without one), t the words after  *)
(* the heading (the whole line without one).                               *)
(***************************************************************************)
Line(h, t) == [h |-> h, t |-> t]

\* re.split(r"^Item.?.?(\d+\.\d+)(?:\. )?", line, maxsplit=1) (line 179)
Split(line) == IF line.h = None THEN <<line.t>> ELSE <<<<>>, line.h, line.t>>

\* line 187: the recognised markers, lower-cased
SigMarkers ==
    {<<"signa", "tures">>, <<"signature">>, <<"signatures">>, <<"signature(s)">>}

\* line 181, without the test of reached_sig
IsNewItem_NoSigTest(split_items, sig) == Len(split_items) > 1

\* line 181
IsNewItem(split_items, sig) == Len(split_items) > 1 /\ sig = FALSE

\* line 187
IsSigMarker(split_items, sig) == Lower(split_items[1]) \in SigMarkers /\ sig = FALSE

\* What lines 181-202 do with a line: the branch taken.
Branch(split_items, cur, sig) ==
    IF IsNewItem(split_items, sig) THEN "new_item"
    ELSE IF IsSigMarker(split_items, sig) THEN "marker"
    ELSE IF cur = None /\ sig = FALSE THEN "skipped"
    ELSE IF Len(split_items) # 1 THEN "wrong_length"
    ELSE IF sig = TRUE THEN "signature"
    ELSE "item"

\* re.findall(r'(?<!\bItem\s)(\d+\.\d+)', text_part, IGNORECASE) (line 210):
\* the numbers of a fragment that do not follow the word Item.
RECURSIVE MentionsFrom(_, _)
MentionsFrom(frag, i) ==
    IF i > Len(frag) THEN <<>>
    ELSE IF IsNumber(frag[i]) /\ (i = 1 \/ LowerWord(frag[i - 1]) # "item")
         THEN <<frag[i]>> \o MentionsFrom(frag, i + 1)
         ELSE MentionsFrom(frag, i + 1)

Mentions(frag) == MentionsFrom(frag, 1)

\* An empty entry of documents, a body of lines, a "REF==<title>" marker.
DocEmpty == [ref |-> None, body |-> <<>>]
DocBody(ls) == [ref |-> None, body |-> ls]
DocRef(t) == [ref |-> t, body |-> <<>>]

\* len(documents[k]) == 0
IsEmptyDoc(v) == v.ref = None /\ v.body = <<>>

RECURSIVE SeedTitles(_, _)
SeedTitles(docs, ts) ==
    IF ts = <<>> THEN docs
    ELSE SeedTitles(IF Has(docs, Head(ts)) THEN docs ELSE Put(docs, Head(ts), DocEmpty),
                    Tail(ts))

\* lines 204-213: the exhibit titles item 9.01 mentions
Seed(d, docs) ==
    IF Has(d, "9.01") /\ Size(Get(d, "9.01")) > 0
    THEN SeedTitles(docs, Flatten([i \in 1..Len(Get(d, "9.01").l) |->
                                       Mentions(Get(d, "9.01").l[i])]))
    ELSE docs

\* lines 179-202: the loop body, on the loop's variables
LineStep(st, sec, line) ==
    LET split_items == Split(line)
        b == Branch(split_items, st.item, st.reached_sig)
    IN [items |-> CASE b = "new_item" -> AppendTo(st.items, split_items[2], split_items[3])
                    [] b = "item" -> AppendTo(st.items, st.item, split_items[1])
                    [] OTHER -> st.items,
        signature |-> IF b = "signature" THEN Append(st.signature, split_items[1])
                      ELSE st.signature,
        item |-> IF b = "new_item" THEN split_items[2] ELSE st.item,
        reached_sig |-> (st.reached_sig \/ b = "marker"),
        err |-> IF b = "wrong_length"
                THEN Append(st.err, [kind |-> "wrong_length", line |-> line])
                ELSE st.err,
        fates |-> Append(st.fates, [sec |-> sec, line |-> line, fate |-> b])]

RECURSIVE RunLines(_, _, _)
RunLines(st, sec, lines) ==
    IF lines = <<>> THEN st ELSE RunLines(LineStep(st, sec, Head(lines)), sec, Tail(lines))

\* lines 169-213: the loop over the sections, from section i
RECURSIVE RunSections(_, _, _, _)
RunSections(st, docs, secs, i) ==
    IF i > Len(secs) \/ st.reached_sig
    THEN [items |-> st.items, signature |-> st.signature, documents |-> docs,
          err |-> st.err]
    ELSE LET st1 == RunLines([st EXCEPT !.item = None], i, secs[i])
         IN RunSections(st1, Seed(st1.items, docs), secs, i + 1)

\* parse_items(full_html, items), for a submission with sections (lines 158-215)
parse_items(secs, d, e) ==
    RunSections([items |-> d, signature |-> <<>>, item |-> None,
                 reached_sig |-> FALSE, err |-> e, fates |-> <<>>], <<>>, secs, 1)

SegLines ==
    {Line("1.05", <<"x">>), Line("9.01", <<"2.1">>), Line(None, <<"a">>),
     Line(None, <<"SIGNATURES">>), Line(None, <<"Signature(s)">>)}

\* The ways to cut a sequence of lines into non-empty sections.
RECURSIVE Cuts(_, _)
Cuts(ls, n) ==
    IF ls = <<>> THEN {<<>>}
    ELSE IF n = 0 THEN {}
    ELSE UNION {{<<SubSeq(ls, 1, k)>> \o rest : rest \in Cuts(SubSeq(ls, k + 1, Len(ls)), n - 1)}
                : k \in 1..Len(ls)}

PreSeeds == {<<"1.05">>, <<"9.01", "1.05">>}

segRest == <<raw, once, twice, summary, doity, blocks, extracted, itemIdx,
             prev_item, out>>

InitSeg ==
    /\ pc = "seg_entry"
    /\ \E ls \in SeqsUpTo(SegLines, MaxLines) : sections \in Cuts(ls, MaxSections)
    /\ \E nums \in PreSeeds : items = PreSeed(<<>>, nums)
    /\ signature = <<>> /\ documents = <<>>
    /\ secIdx = 0 /\ lineIdx = 0 /\ item = None /\ reached_sig = FALSE
    /\ fates = <<>>
    /\ NormIdle /\ GateIdle /\ BodyIdle /\ OutIdle

\* lines 163-167
SegEntry ==
    /\ pc = "seg_entry"
    /\ IF Len(sections) = 0
       THEN /\ err' = Append(err, [kind |-> "no_sections"])
            /\ pc' = "seg_none"
       ELSE /\ err' = err
            /\ pc' = "seg_for"
    /\ UNCHANGED <<items, signature, documents, sections, secIdx, lineIdx, item,
                   reached_sig, fates, segRest>>

\* lines 169-176: the next section, unless the signature was reached
SegSection ==
    /\ pc = "seg_for"
    /\ IF secIdx < Len(sections) /\ ~reached_sig
       THEN /\ secIdx' = secIdx + 1
            /\ lineIdx' = 1
            /\ item' = None
            /\ pc' = "seg_line"
       ELSE /\ pc' = "seg_returned"
            /\ UNCHANGED <<secIdx, lineIdx, item>>
    /\ UNCHANGED <<items, signature, documents, sections, reached_sig, fates, err,
                   segRest>>

\* lines 178-202: one line
SegLine ==
    /\ pc = "seg_line"
    /\ LET st == LineStep([items |-> items, signature |-> signature, item |-> item,
                           reached_sig |-> reached_sig, err |-> err, fates |-> fates],
                          secIdx, sections[secIdx][lineIdx])
       IN /\ items' = st.items
          /\ signature' = st.signature
          /\ item' = st.item
          /\ reached_sig' = st.reached_sig
          /\ err' = st.err
          /\ fates' = st.fates
    /\ lineIdx' = lineIdx + 1
    /\ pc' = IF lineIdx = Len(sections[secIdx]) THEN "seg_seed" ELSE "seg_line"
    /\ UNCHANGED <<documents, sections, secIdx, segRest>>

\* lines 204-213: after each section
SegSeed ==
    /\ pc = "seg_seed"
    /\ documents' = Seed(items, documents)
    /\ pc' = "seg_for"
    /\ UNCHANGED <<items, signature, sections, secIdx, lineIdx, item, reached_sig,
                   fates, err, segRest>>

NextSeg == SegEntry \/ SegSection \/ SegLine \/ SegSeed

SpecSeg == InitSeg /\ [][NextSeg]_vars

\* C1: once reached_sig is set it stays set, and no later line is appended to
\* any item's fragment list.
C1_SignatureTerminal == [][reached_sig => (reached_sig' /\ items' = items)]_vars

\* An Item heading was read after the signature marker.
C1_Witness ==
    /\ reached_sig
    /\ \E i, j \in 1..Len(fates) :
           i < j /\ fates[i].fate = "marker" /\ fates[j].line.h # None

AllLines == Flatten(sections)

\* An Item heading was taken as one before line i of the filing.
PastPreItem(i) == \E j \in 1..(i - 1) : j <= Len(fates) /\ fates[j].fate = "new_item"

\* C2: when parse_items returns, every line of every section that follows the
\* first Item heading of the filing has been read and has gone to an item or
\* to the signature block; only the marker line itself is dropped.
C2_Totality ==
    pc = "seg_returned" =>
        \A i \in 1..Len(AllLines) :
            PastPreItem(i) =>
                /\ i <= Len(fates)
                /\ fates[i].fate \in {"new_item", "item", "signature", "marker"}

(***************************************************************************)
(* parse_documents (lines 218-265).                                        *)
(*                                                                         *)
(* A <DOCUMENT> block: type is the <TYPE> header matched at line 222 as    *)
(* its parts around '-' (NoType when the header is no EX- type), pdf       *)
(* whether the <FILENAME> header names a pdf, hasText whether the block    *)
(* has a <text> sub-block, text the lines of that sub-block.               *)
(***************************************************************************)
Block(type, pdf, hasText, text) ==
    [type |-> type, pdf |-> pdf, hasText |-> hasText, text |-> text]

NoType == <<>>

\* '-'.join(parts), for the titles of the vocabulary
Hyphenated(parts) ==
    CASE parts = <<"EX", "2.1">> -> "EX-2.1"
      [] parts = <<"EX", "2.2">> -> "EX-2.2"
      [] parts = <<"EX", "104">> -> "EX-104"

\* document_title[-1] == '.', for the titles of the vocabulary
EndsWithDot(parts) == parts[Len(parts)] \in {"", "2.", "99."}

\* lines 238-243
ShortTitle(parts) == IF Len(parts) = 2 THEN parts[2] ELSE Hyphenated(parts)

\* lines 257-263, from line i of the text
RECURSIVE BodyLines(_, _, _, _)
BodyLines(lines, i, removed_title, titles) ==
    IF i > Len(lines) THEN <<>>
    ELSE IF removed_title = FALSE /\ lines[i] \in titles
         THEN BodyLines(lines, i + 1, TRUE, titles)
         ELSE <<lines[i]>> \o BodyLines(lines, i + 1, removed_title, titles)

\* lines 220-263: one block, on [docs, extracted, err, raised]
DocStep(st, b) ==
    IF b.type = NoType THEN st
    ELSE IF b.pdf THEN [st EXCEPT !.err = Append(@, [kind |-> "pdf"])]
    ELSE IF EndsWithDot(b.type) \/ Hyphenated(b.type) = "8-K" THEN st
    ELSE IF ShortTitle(b.type) \in {"", "."} THEN st
    ELSE LET short_title == ShortTitle(b.type)
             known == Has(st.docs, short_title)
             docs1 == IF known THEN st.docs ELSE Put(st.docs, short_title, DocEmpty)
             err1 == IF known THEN st.err
                     ELSE Append(st.err, [kind |-> "unexpected", title |-> short_title])
         IN IF ~b.hasText
            THEN \* doc_soup.find('text') is None: get_html_text raises (line 146)
                 [docs |-> docs1, extracted |-> st.extracted,
                  err |-> Append(err1, [kind |-> "AttributeError"]), raised |-> TRUE]
            ELSE [docs |-> Put(docs1, short_title,
                               DocBody(Get(docs1, short_title).body \o
                                       BodyLines(b.text, 1, FALSE,
                                                 {<<"Exhibit", short_title>>,
                                                  <<Hyphenated(b.type)>>}))),
                  extracted |-> IF short_title \in Range(st.extracted) THEN st.extracted
                                ELSE Append(st.extracted, short_title),
                  err |-> err1, raised |-> FALSE]

RECURSIVE parse_documents(_, _)
parse_documents(st, bs) ==
    IF bs = <<>> \/ st.raised THEN st ELSE parse_documents(DocStep(st, Head(bs)), Tail(bs))

(***************************************************************************)
(* doit from the call of parse_items on (lines 291-355).                   *)
(***************************************************************************)
\* re.findall(r' exhibit (\d+\.\d+)', fragment, IGNORECASE) (line 304): the
\* numbers that follow the word exhibit, which itself follows a space.
RECURSIVE RefsFrom(_, _)
RefsFrom(frag, i) ==
    IF i >= Len(frag) THEN <<>>
    ELSE IF i > 1 /\ LowerWord(frag[i]) = "exhibit" /\ IsNumber(frag[i + 1])
         THEN <<frag[i + 1]>> \o RefsFrom(frag, i + 2)
         ELSE RefsFrom(frag, i + 1)

Refs(frag) == RefsFrom(frag, 1)

\* line 306
IsTarget(docs, match, short_title) == Has(docs, match) /\ match # short_title

\* lines 305-308: the first match that qualifies, or None
FirstTarget(docs, matches, short_title) ==
    IF \E i \in 1..Len(matches) : IsTarget(docs, matches[i], short_title)
    THEN matches[CHOOSE i \in 1..Len(matches) :
                     /\ IsTarget(docs, matches[i], short_title)
                     /\ \A j \in 1..(i - 1) : ~IsTarget(docs, matches[j], short_title)]
    ELSE None

\* lines 297-308: one entry of documents, on [docs, items, err, raised]
ResolveStep(st, short_title) ==
    IF short_title = "104" THEN st
    ELSE IF ~IsEmptyDoc(Get(st.docs, short_title)) THEN st
    ELSE LET d == Touch(st.items, "9.01")
             frags == Get(d, "9.01").l
             short_title_index == IndexOf(frags, <<short_title>>)
         IN IF short_title_index = 0 THEN [st EXCEPT !.items = d]
            ELSE IF short_title_index + 1 > Len(frags)
            THEN \* items["9.01"][short_title_index+1] is out of range
                 [st EXCEPT !.items = d, !.raised = TRUE,
                            !.err = Append(@, [kind |-> "IndexError"])]
            ELSE LET m == FirstTarget(st.docs, Refs(frags[short_title_index + 1]),
                                      short_title)
                 IN [st EXCEPT !.items = d,
                                !.docs = IF m = None THEN @
                                         ELSE Put(@, short_title, DocRef(m))]

\* lines 296-308
RECURSIVE Resolve(_, _)
Resolve(st, titles) ==
    IF titles = <<>> \/ st.raised THEN st
    ELSE Resolve(ResolveStep(st, Head(titles)), Tail(titles))

\* line 325, keeping the matched fragment
HeadOf_WithMatch(order, item_num_index) == Range(SubSeq(order, 1, item_num_index))

\* line 325
HeadOf(order, item_num_index) == Range(SubSeq(order, 1, item_num_index - 1))

\* line 326
TailOf(order, item_num_index) == Range(SubSeq(order, item_num_index + 1, Len(order)))

\* lines 313-315
NeedsRepair(d, item_num, prev) ==
    /\ Size(Get(d, item_num)) = 0
    /\ prev # None
    /\ Holds(Get(d, prev), <<item_num>>)

\* lines 316-332, with the order in which list(items[prev_item]) yields
Repair(d, item_num, prev, order) ==
    LET item_num_index == IndexOf(order, <<item_num>>)
    IN Put(Put(d, prev, SetVal(HeadOf(order, item_num_index))),
           item_num, SetVal(TailOf(order, item_num_index)))

\* lines 334-336: ' '.join(...).strip(), then leading spaces and periods off
RECURSIVE StripLead(_)
StripLead(ws) == IF ws # <<>> /\ Head(ws) = "." THEN StripLead(Tail(ws)) ELSE ws

ItemString(order) == StripLead(Flatten(order))

\* lines 348-353, on [out, err]
RECURSIVE Report(_, _, _)
Report(docs, o, e) ==
    IF docs = <<>> THEN [out |-> o, err |-> e]
    ELSE IF IsEmptyDoc(Head(docs).v)
         THEN Report(Tail(docs), o, Append(e, [kind |-> "missing_document",
                                               title |-> Head(docs).k]))
         ELSE Report(Tail(docs), Append(o, [kind |-> "document", title |-> Head(docs).k,
                                            text |-> Head(docs).v]), e)

\* The lines of the section of a submission, in two families: item texts that
\* hold bare item numbers, and an exhibit list with exhibit blocks.
RepairLines ==
    {Line("1.05", <<"x">>), Line("2.02", <<>>), Line(None, <<"a">>),
     Line(None, <<"2.02">>), Line(None, <<"9.01">>)}

ExhibitLines ==
    {Line(None, <<"2.1">>), Line(None, <<"2.2">>), Line(None, <<"a">>),
     Line(None, <<"see", "Exhibit", "2.2">>), Line(None, <<"see", "exhibit", "2.1">>)}

Blocks ==
    {Block(NoType, FALSE, TRUE, <<<<"a">>>>),
     Block(<<"EX", "2.1">>, FALSE, TRUE, <<<<"Exhibit", "2.1">>, <<"b">>>>),
     Block(<<"EX", "2.2">>, FALSE, TRUE, <<<<"b">>>>),
     Block(<<"EX", "2.2">>, FALSE, TRUE, <<<<"EX-2.2">>>>),
     Block(<<"EX", "2.1">>, TRUE, FALSE, <<>>),
     Block(<<"EX", "104">>, FALSE, TRUE, <<<<"Exhibit", "104">>>>),
     Block(<<"EX", "2.1">>, FALSE, FALSE, <<>>)}

BodyPreSeeds == {<<"1.05", "2.02">>, <<"1.05", "2.02", "9.01">>, <<"1.05", "9.01", "2.02">>}

bodyRest == <<raw, once, twice, summary, doity, secIdx, lineIdx, item, reached_sig,
              fates>>

InitBody ==
    /\ pc = "parse_items"
    /\ \/ /\ sections = <<>>
          /\ items = PreSeed(<<>>, <<"1.05">>)
          /\ blocks = <<>>
       \/ /\ \E ls \in SeqsUpTo(RepairLines, MaxLines) : ls # <<>> /\ sections = <<ls>>
          /\ \E nums \in BodyPreSeeds : items = PreSeed(<<>>, nums)
          /\ blocks = <<>>
       \/ /\ \E ls \in SeqsUpTo(ExhibitLines, MaxExFrags) :
                 sections = <<<<Line("1.05", <<"x">>), Line("9.01", <<>>)>> \o ls>>
          /\ items = PreSeed(<<>>, <<"1.05", "9.01">>)
          /\ blocks \in SeqsUpTo(Blocks, MaxDocs)
    /\ signature = <<>> /\ documents = <<>>
    /\ extracted = <<>> /\ itemIdx = 0 /\ prev_item = None
    /\ secIdx = 0 /\ lineIdx = 0 /\ item = None /\ reached_sig = FALSE /\ fates = <<>>
    /\ NormIdle /\ GateIdle /\ OutIdle

\* line 291: parse_items returns None without sections (line 167), and the
\* assignment to three names raises TypeError
CallParseItems ==
    /\ pc = "parse_items"
    /\ IF Len(sections) = 0
       THEN /\ err' = err \o <<[kind |-> "no_sections"], [kind |-> "TypeError"]>>
            /\ pc' = "raised"
            /\ UNCHANGED <<items, signature, documents>>
       ELSE LET r == parse_items(sections, items, err)
            IN /\ items' = r.items
               /\ signature' = r.signature
               /\ documents' = r.documents
               /\ err' = r.err
               /\ pc' = "parse_documents"
    /\ UNCHANGED <<sections, blocks, extracted, itemIdx, prev_item, out, bodyRest>>

\* line 293
CallParseDocuments ==
    /\ pc = "parse_documents"
    /\ LET r == parse_documents([docs |-> documents, extracted |-> extracted,
                                 err |-> err, raised |-> FALSE], blocks)
       IN /\ documents' = r.docs
          /\ extracted' = r.extracted
          /\ err' = r.err
          /\ pc' = IF r.raised THEN "raised" ELSE "resolve"
    /\ UNCHANGED <<items, signature, sections, blocks, itemIdx, prev_item, out, bodyRest>>

\* lines 296-308
ResolveReferences ==
    /\ pc = "resolve"
    /\ LET r == Resolve([docs |-> documents, items |-> items, err |-> err,
                         raised |-> FALSE], Keys(documents))
       IN /\ documents' = r.docs
          /\ items' = r.items
          /\ err' = r.err
          /\ pc' = IF r.raised THEN "raised" ELSE "items"
    /\ itemIdx' = 1
    /\ UNCHANGED <<signature, sections, blocks, extracted, prev_item, out, bodyRest>>

\* lines 312-343: one item
ItemStep ==
    /\ pc = "items"
    /\ itemIdx <= Len(items)
    /\ LET item_num == items[itemIdx].k
       IN /\ IF NeedsRepair(items, item_num, prev_item)
             THEN \E order \in Orders(Get(items, prev_item)) :
                      /\ items' = Repair(items, item_num, prev_item, order)
                      /\ \E joined \in Orders(Get(items', item_num)) :
                             LET item_string == ItemString(joined)
                                 fix == [kind |-> "fix", item |-> item_num,
                                         prev |-> prev_item, order |-> order]
                             IN IF Len(item_string) = 0
                                THEN /\ err' = err \o <<fix, [kind |-> "missing_item",
                                                              item |-> item_num]>>
                                     /\ out' = out
                                ELSE /\ err' = Append(err, fix)
                                     /\ out' = Append(out, [kind |-> "item", item |-> item_num,
                                                            text |-> item_string])
             ELSE /\ items' = items
                  /\ \E joined \in Orders(Get(items, item_num)) :
                         LET item_string == ItemString(joined)
                         IN IF Len(item_string) = 0
                            THEN /\ err' = Append(err, [kind |-> "missing_item",
                                                        item |-> item_num])
                                 /\ out' = out
                            ELSE /\ err' = err
                                 /\ out' = Append(out, [kind |-> "item", item |-> item_num,
                                                        text |-> item_string])
          /\ prev_item' = item_num
    /\ itemIdx' = itemIdx + 1
    /\ pc' = IF itemIdx = Len(items) THEN "signature" ELSE "items"
    /\ UNCHANGED <<signature, documents, sections, blocks, extracted, bodyRest>>

\* lines 345-346
PrintSignature ==
    /\ pc = "signature"
    /\ out' = Append(out, [kind |-> "signature", text |-> Flatten(signature)])
    /\ pc' = "documents"
    /\ UNCHANGED <<items, signature, documents, sections, blocks, extracted, itemIdx,
                   prev_item, err, bodyRest>>

\* lines 348-355
ReportDocuments ==
    /\ pc = "documents"
    /\ LET r == Report(documents, out, err)
       IN out' = r.out /\ err' = r.err
    /\ pc' = "done"
    /\ UNCHANGED <<items, signature, documents, sections, blocks, extracted, itemIdx,
                   prev_item, bodyRest>>

NextBody ==
    \/ CallParseItems
    \/ CallParseDocuments
    \/ ResolveReferences
    \/ ItemStep
    \/ PrintSignature
    \/ ReportDocuments

SpecBody == InitBody /\ [][NextBody]_vars

(***************************************************************************)
(* Properties of the body of doit.                                         *)
(***************************************************************************)
\* The boundary repairs logged by the step being taken (line 316).
NewFixes == {i \in 1..Len(err') : i > Len(err) /\ err'[i].kind = "fix"}

\* The fragments that a logged repair found before and after the match.
Before(e) == {e.order[j] : j \in 1..(IndexOf(e.order, <<e.item>>) - 1)}
After(e) == {e.order[j] : j \in (IndexOf(e.order, <<e.item>>) + 1)..Len(e.order)}

\* C3: a submission without sections ends the filing without an error raised.
C3_NoSectionsNonFatal == Len(sections) = 0 => pc # "raised"

\* C4 (as amended): a repair of an item that segmentation left empty, whose id
\* is a fragment of the preceding item, leaves the item with exactly the set
\* of the fragments that followed the first match (empty when the match was
\* the last fragment) and the predecessor with exactly the set of the
\* fragments before the first match, which never holds the id.
C4_RepairSplits ==
    [][\A i \in NewFixes :
           LET e == err'[i]
           IN /\ Size(Get(items, e.item)) = 0
              /\ e.order \in Orders(Get(items, e.prev))
              /\ IndexOf(e.order, <<e.item>>) > 0
              /\ Get(items', e.item) = SetVal(After(e))
              /\ Get(items', e.prev) = SetVal(Before(e))
              /\ <<e.item>> \notin Get(items', e.prev).s
              /\ Size(Get(items', e.item)) > 0 <=>
                     IndexOf(e.order, <<e.item>>) < Len(e.order)]_vars

\* A repair was made whose match had fragments before it and after it.
C4_Witness ==
    \E i \in 1..Len(err) :
        /\ err[i].kind = "fix"
        /\ Before(err[i]) # {}
        /\ After(err[i]) # {}
        /\ Get(items, err[i].item).isSet

\* C4 (as claimed): every repair leaves the item with a non-empty collection
\* of the fragments that followed the match, and the predecessor with only
\* fragments from before the match.
C4_RepairNonEmpty ==
    [][\A i \in NewFixes :
           LET e == err'[i]
           IN /\ Size(Get(items', e.item)) > 0
              /\ Get(items', e.item).s = After(e)
              /\ Get(items', e.prev).s = Before(e)
              /\ <<e.item>> \notin Get(items', e.prev).s]_vars

\* C5: the prose printed for the predecessor of a repaired item holds none of
\* the fragments the repair moved out of it.
C5_ReportedAreRepaired ==
    \A i \in 1..Len(err) :
        err[i].kind = "fix" =>
            \A j \in 1..Len(out) :
                (out[j].kind = "item" /\ out[j].item = err[i].prev) =>
                    \A f \in After(err[i]) \ Before(err[i]) :
                        f # <<>> => ~Contains(out[j].text, f)

\* C6: after reference resolution a marker names another title, one that is a
\* key of documents holding a non-empty extracted body.
C6_MarkerInvariant ==
    pc \in {"items", "signature", "documents", "done"} =>
        \A i \in 1..Len(documents) :
            documents[i].v.ref # None =>
                /\ documents[i].v.ref # documents[i].k
                /\ Has(documents, documents[i].v.ref)
                /\ Get(documents, documents[i].v.ref).body # <<>>

\* C7: reference resolution raises nothing, and every entry of documents that
\* is empty at the end has been reported as missing.
C7_ResolverNeverRaises ==
    /\ \A i \in 1..Len(err) : err[i].kind # "IndexError"
    /\ pc = "done" =>
           \A i \in 1..Len(documents) :
               IsEmptyDoc(documents[i].v) =>
                   \E j \in 1..Len(err) :
                       err[j].kind = "missing_document" /\ err[j].title = documents[i].k

\* The titles of the documents printed, in the order printed.
Reported ==
    LET docs == SelectSeq(out, LAMBDA o : o.kind = "document")
    IN [i \in 1..Len(docs) |-> docs[i].title]

\* C9: the exhibits that were extracted are reported in the order in which
\* parse_documents extracted them.
C9_ExtractionOrder ==
    pc = "done" =>
        SelectSeq(Reported, LAMBDA t : t \in Range(extracted)) =
            SelectSeq(extracted, LAMBDA t : t \in Range(Reported))
=============================================================================
